---- MODULE Spec2Model ----
(***************************************************************************)
(* Civic-Track: the issue lifecycle of the Express server.                 *)
(*                                                                         *)
(* Two server files exist in the repository: src/backend/server.js         *)
(* (Cloudinary evidence storage, routes gated by verifyAdmin) and          *)
(* src/unnamed/part_000 (local-disk evidence storage, no gate).  The       *)
(* variable `variant` says which of the two is running.                    *)
(*                                                                         *)
(* Every request is handled in a slot of `req`.  A handler runs            *)
(* synchronously up to its next `await`; each awaited store operation is   *)
(* applied by the store in one atomic step (or throws), and the response   *)
(* is sent in a later step, so requests interleave at exactly the awaits.  *)
(*                                                                         *)
(* Spec is the whole server.  SpecWrite is the server while no reading     *)
(* request is made: those write nothing (NextRead leaves users, issues,    *)
(* nextId, stored and clock unchanged), so what holds of the store and of  *)
(* the writing requests under SpecWrite holds under Spec.  SpecCloud is    *)
(* src/backend/server.js alone with all of its routes.                     *)
(***************************************************************************)
EXTENDS Integers, Sequences, FiniteSets, TLC

\* ---------------------------------------------------------------- bounds
\* requests being handled at the same time
MaxInFlight == 2
\* issue documents ever constructed (ObjectIds handed out)
MaxIssues == 2
\* the last value Date.now() takes (disk variant)
MaxClock == 1
\* uploads Cloudinary accepts (cloud variant)
MaxUploads == 2
\* reading requests (listings, logins, count, search, verify) being handled at
\* the same time: they write nothing, so one never shows in another
MaxReaders == 1

\* ---------------------------------------------------------------- inputs
Emails == {"a@x.com", "b@x.com"}
Names == {"Ann", "Bob"}
\* the password a signup sets, and the passwords a login tries
Passwords == {"pw"}
TriedPasswords == {"pw", "bad"}
\* ?name= of /api/users/search: "" stands for no such parameter
SearchNames == {"", "an", "b"}
Exts == {".jpg"}
StatusSet == {"pending", "accepted", "rejected"}
\* what a PATCH body may carry in `status`: any string
RequestedStatuses == {"pending", "accepted", "bogus"}
\* what a submission body may carry in `status`: "" stands for no such field
BodyStatuses == {"", "accepted"}
\* the Authorization header: absent, a malformed/expired token, a valid token
Auths == {"none", "invalid", "valid"}
Slots == 1..MaxInFlight
Ids == 1..MaxIssues
\* an :id of a PATCH that is no ObjectId, such as "abc"
Malformed == -1

NoUrl == [dir |-> "", n |-> 0, ext |-> ""]
Free == [kind |-> "free", pc |-> "free"]

VARIABLES
    variant,    \* "cloud": src/backend/server.js, "disk": src/unnamed/part_000
    users,      \* the user collection: a set of [email, name, password]
    issues,     \* the issue collection: a set of [id, photo, emailid, status]
    nextId,     \* the next ObjectId mongoose hands to a constructed document
    stored,     \* the photo URLs the evidence storage has written
    clock,      \* Date.now()
    req         \* the requests being handled, by slot

vars == <<variant, users, issues, nextId, stored, clock, req>>

\* ---------------------------------------------------------------- helpers
IssueIds == {i.id : i \in issues}
IssueById(id) == CHOOSE i \in issues : i.id = id
IssuesOf(email) == {i \in issues : i.emailid = email}
UserEmails == {u.email : u \in users}

\* a response that is ready to be sent: nothing is left to do but send it
Reply(kind, code) == [kind |-> kind, pc |-> "respond", code |-> code]
\* the answer of a catch block after the awaited call `what` threw
Caught(kind, what) == Reply(kind, 500) @@ [error |-> what]

\* a request is taken up by the first slot that handles none
Idle(s) == req[s] = Free /\ \A t \in Slots : t < s => req[t] # Free

\* the requests that only read the store
Reading(r) == r.kind \in {"list", "login", "adminLogin", "verify", "count", "search"}
\* another reading request can be taken up
Quiet == Cardinality({t \in Slots : Reading(req[t])}) < MaxReaders

\* middleware/authadmin.js: verifyAdmin answers 401 without a header, 403 for
\* a token that does not verify, and calls next() otherwise.  0 stands for
\* next().
verifyAdmin(auth) ==
    IF auth = "none" THEN 401
    ELSE IF auth = "invalid" THEN 403
    ELSE 0

\* variant of gate: the route is registered without the middleware
gate_none(auth) == 0

\* the middleware in front of a moderation route: server.js names verifyAdmin
\* in app.patch / app.delete / app.get("/api/issues"), part_000 names none
gate(auth) == IF variant = "cloud" THEN verifyAdmin(auth) ELSE 0

\* whether the request's token was verified before its handler ran
verified(auth) == variant = "cloud" /\ verifyAdmin(auth) = 0

\* req.headers.authorization as the server has read it: part_000 never reads it
token(auth) == IF variant = "cloud" THEN auth ELSE "unread"

\* the answer of the gate to a request it does not let through
Refused(kind, auth) == Reply(kind, gate(auth)) @@ [token |-> token(auth)]

\* models/user.js: email is the unique key of a user, the store refuses a
\* second document with an email it already holds
duplicateKey(newUser) == newUser.email \in UserEmails

\* ---------------------------------------------------------------- submission
\* what multer leaves in req.file
\*   cloud: multer-storage-cloudinary reports the URL in one of the fields, or
\*          in none of them
\*   disk:  filename is Date.now() + path.extname(file.originalname)
CloudUrl(n) == [dir |-> "CivicTrack_uploads", n |-> n, ext |-> ""]
CloudFile(field, n) ==
    [path |-> IF field = "path" THEN CloudUrl(n) ELSE NoUrl,
     url |-> IF field = "url" THEN CloudUrl(n) ELSE NoUrl,
     secure_url |-> IF field = "secure_url" THEN CloudUrl(n) ELSE NoUrl]
UrlFields == {"path", "url", "secure_url", "none"}

filename(ext) == [dir |-> "/uploads/", n |-> clock, ext |-> ext]

\* req.file.path || req.file.url || req.file.secure_url
imageUrl(file) ==
    IF file.path # NoUrl THEN file.path
    ELSE IF file.url # NoUrl THEN file.url
    ELSE file.secure_url

\* variant of newIssue: the document is built from the request body, so a
\* status in the body wins over the schema default
newIssue_fromBody(photo, body) ==
    [id |-> nextId, photo |-> photo, emailid |-> body.emailid,
     status |-> IF body.status = "" THEN "pending" ELSE body.status]

\* new issue({ photo, ..., emailid: req.body.emailid, ..., status: "pending" })
newIssue(photo, body) ==
    [id |-> nextId, photo |-> photo, emailid |-> body.emailid, status |-> "pending"]

Bodies == [emailid : Emails, status : BodyStatuses]

\* variant of SubmitNoFile: without the `if (!req.file)` test the handler
\* dereferences req.file, throws, and the catch block answers 500
SubmitNoFile_unchecked(s) ==
    /\ Idle(s)
    /\ req' = [req EXCEPT ![s] = Reply("submit", 500) @@ [file |-> FALSE]]
    /\ UNCHANGED <<variant, users, issues, nextId, stored, clock>>

\* POST /api/issues without a file: multer leaves req.file undefined
SubmitNoFile(s) ==
    /\ Idle(s)
    /\ req' = [req EXCEPT ![s] = Reply("submit", 400) @@ [file |-> FALSE]]
    /\ UNCHANGED <<variant, users, issues, nextId, stored, clock>>

\* POST /api/issues with a file that the storage backend rejects: multer
\* passes the error on and the handler never runs
SubmitUploadFail(s) ==
    /\ Idle(s)
    /\ req' = [req EXCEPT ![s] = Caught("submit", "upload") @@ [file |-> TRUE]]
    /\ UNCHANGED <<variant, users, issues, nextId, stored, clock>>

\* variant of SubmitCloud: without the `if (!imageUrl)` test
SubmitCloud_unchecked(s) ==
    /\ Idle(s)
    /\ variant = "cloud"
    /\ Cardinality(stored) < MaxUploads
    /\ nextId <= MaxIssues
    /\ \E body \in Bodies, field \in UrlFields :
         LET n == Cardinality(stored) + 1
             file == CloudFile(field, n)
         IN  /\ stored' = stored \cup {CloudUrl(n)}
             /\ req' = [req EXCEPT ![s] =
                          [kind |-> "submit", pc |-> "save", file |-> TRUE,
                           body |-> body,
                           newIssue |-> newIssue(imageUrl(file), body)]]
             /\ nextId' = nextId + 1
    /\ UNCHANGED <<variant, users, issues, clock>>

\* POST /api/issues with a file that was stored: the handler runs up to
\* `await newIssue.save()`
SubmitCloud(s) ==
    /\ Idle(s)
    /\ variant = "cloud"
    /\ Cardinality(stored) < MaxUploads
    /\ \E body \in Bodies, field \in UrlFields :
         LET n == Cardinality(stored) + 1
             file == CloudFile(field, n)
         IN  /\ stored' = stored \cup {CloudUrl(n)}
             /\ IF imageUrl(file) = NoUrl
                  THEN /\ req' = [req EXCEPT ![s] =
                                    Reply("submit", 500) @@ [file |-> TRUE]]
                       /\ UNCHANGED nextId
                  ELSE /\ nextId <= MaxIssues
                       /\ req' = [req EXCEPT ![s] =
                                    [kind |-> "submit", pc |-> "save", file |-> TRUE,
                                     body |-> body,
                                     newIssue |-> newIssue(imageUrl(file), body)]]
                       /\ nextId' = nextId + 1
    /\ UNCHANGED <<variant, users, issues, clock>>

SubmitDisk(s) ==
    /\ Idle(s)
    /\ variant = "disk"
    /\ nextId <= MaxIssues
    /\ \E body \in Bodies, ext \in Exts :
         /\ stored' = stored \cup {filename(ext)}
         /\ req' = [req EXCEPT ![s] =
                      [kind |-> "submit", pc |-> "save", file |-> TRUE,
                       body |-> body,
                       newIssue |-> newIssue(filename(ext), body)]]
    /\ nextId' = nextId + 1
    /\ UNCHANGED <<variant, users, issues, clock>>

\* newIssue.save() is applied by the store
SubmitSave(s) ==
    /\ req[s].kind = "submit" /\ req[s].pc = "save"
    /\ issues' = issues \cup {req[s].newIssue}
    /\ req' = [req EXCEPT ![s] = Reply("submit", 201)
                                   @@ [file |-> TRUE, status |-> req[s].body.status,
                                       id |-> req[s].newIssue.id]]
    /\ UNCHANGED <<variant, users, nextId, stored, clock>>

\* variant of SubmitSaveFail: the document is written although save() throws
SubmitSaveFail_partial(s) ==
    /\ req[s].kind = "submit" /\ req[s].pc = "save"
    /\ issues' = issues \cup {req[s].newIssue}
    /\ req' = [req EXCEPT ![s] = Caught("submit", "save") @@ [file |-> TRUE]]
    /\ UNCHANGED <<variant, users, nextId, stored, clock>>

\* newIssue.save() throws: the catch block answers 500
SubmitSaveFail(s) ==
    /\ req[s].kind = "submit" /\ req[s].pc = "save"
    /\ req' = [req EXCEPT ![s] = Caught("submit", "save") @@ [file |-> TRUE]]
    /\ UNCHANGED <<variant, users, issues, nextId, stored, clock>>

\* ---------------------------------------------------------------- signup
\* POST /api/users/signup: new user(req.body), then `await newUser.save()`
SignupRequest(s) ==
    /\ Idle(s)
    /\ \E email \in Emails, name \in Names, password \in Passwords :
         req' = [req EXCEPT ![s] =
                   [kind |-> "signup", pc |-> "save",
                    newUser |-> [email |-> email, name |-> name,
                                 password |-> password]]]
    /\ UNCHANGED <<variant, users, issues, nextId, stored, clock>>

\* newUser.save() is applied by the store, or refused, and then the catch
\* block answers 500
SignupSave(s) ==
    /\ req[s].kind = "signup" /\ req[s].pc = "save"
    /\ IF duplicateKey(req[s].newUser)
         THEN /\ req' = [req EXCEPT ![s] = Caught("signup", "save")]
              /\ UNCHANGED users
         ELSE /\ req' = [req EXCEPT ![s] = Reply("signup", 201)]
              /\ users' = users \cup {req[s].newUser}
    /\ UNCHANGED <<variant, issues, nextId, stored, clock>>

\* ---------------------------------------------------------------- status transition
\* issue.findByIdAndUpdate(id, { status }, { new: true }) answers the document
\* as it is after the update, or null (here: NoIssue) when no document has
\* that id.  The schema types status as String with no enum, so every string is
\* stored as it is.
NoIssue == [id |-> 0, photo |-> NoUrl, emailid |-> "", status |-> ""]
\* variant of findByIdAndUpdate: without { new: true } the answer is the
\* document as it was before the update
findByIdAndUpdate_old(id, status) ==
    IF id \in IssueIds THEN IssueById(id) ELSE NoIssue
findByIdAndUpdate(id, status) ==
    IF id \in IssueIds THEN [IssueById(id) EXCEPT !.status = status] ELSE NoIssue
\* variant of updated: a validated state machine, only a pending issue moves
updated_fromPending(id, status) ==
    {IF i.id = id /\ i.status = "pending" THEN [i EXCEPT !.status = status] ELSE i :
       i \in issues}
\* the collection after that update
updated(id, status) ==
    {IF i.id = id THEN [i EXCEPT !.status = status] ELSE i : i \in issues}

\* PATCH /api/issues/:id/status arrives: the gate, then the handler up to
\* `await issue.findByIdAndUpdate(...)`
PatchRequest(s) ==
    /\ Idle(s)
    /\ \E auth \in Auths, id \in Ids \cup {Malformed}, status \in RequestedStatuses :
         req' = [req EXCEPT ![s] =
                   IF gate(auth) # 0
                     THEN Refused("patch", auth)
                     ELSE [kind |-> "patch", pc |-> "update",
                           verified |-> verified(auth), token |-> token(auth),
                           id |-> id, status |-> status]]
    /\ UNCHANGED <<variant, users, issues, nextId, stored, clock>>

\* variant of PatchUpdate: with { upsert: true } an id that no document has
\* gets a new document
PatchUpdate_upsert(s) ==
    /\ req[s].kind = "patch" /\ req[s].pc = "update"
    /\ req[s].id # Malformed
    /\ LET Issue == IF req[s].id \in IssueIds
                      THEN findByIdAndUpdate(req[s].id, req[s].status)
                      ELSE [id |-> req[s].id, photo |-> NoUrl, emailid |-> "",
                            status |-> req[s].status]
       IN  /\ issues' = updated(req[s].id, req[s].status) \cup {Issue}
           /\ req' = [req EXCEPT ![s] = Reply("patch", 200) @@ [Issue |-> Issue]]
    /\ UNCHANGED <<variant, users, nextId, stored, clock>>

\* the store applies the update; the handler answers 404 for null and
\* { message, Issue } otherwise
PatchUpdate(s) ==
    /\ req[s].kind = "patch" /\ req[s].pc = "update"
    /\ req[s].id # Malformed
    /\ LET Issue == findByIdAndUpdate(req[s].id, req[s].status)
       IN  IF Issue = NoIssue
             THEN /\ req' = [req EXCEPT ![s] = Reply("patch", 404)]
                  /\ UNCHANGED <<issues>>
             ELSE /\ issues' = updated(req[s].id, req[s].status)
                  /\ req' = [req EXCEPT ![s] = Reply("patch", 200)
                               @@ [Issue |-> Issue]]
    /\ UNCHANGED <<variant, users, nextId, stored, clock>>

\* mongoose casts req.params.id to an ObjectId before it sends the update: for
\* an id that is none the query rejects with a CastError, the store is not
\* asked, and the catch block answers 500
PatchCastError(s) ==
    /\ req[s].kind = "patch" /\ req[s].pc = "update"
    /\ req[s].id = Malformed
    /\ req' = [req EXCEPT ![s] = Caught("patch", "CastError")]
    /\ UNCHANGED <<variant, users, issues, nextId, stored, clock>>

\* the update throws: the catch block answers 500
PatchFail(s) ==
    /\ req[s].kind = "patch" /\ req[s].pc = "update"
    /\ req[s].id # Malformed
    /\ req' = [req EXCEPT ![s] = Caught("patch", "findByIdAndUpdate")]
    /\ UNCHANGED <<variant, users, issues, nextId, stored, clock>>

\* ---------------------------------------------------------------- user deletion
\* user.findOneAndDelete({ email }) removes the matching user, if any
findOneAndDelete(email) == {u \in users : u.email # email}
\* variant of deleteMany: issue.deleteMany({}) with no filter
deleteMany_all(email) == {}
\* issue.deleteMany({ emailid: email })
deleteMany(email) == {i \in issues : i.emailid # email}

\* DELETE /api/users/:email arrives: the gate, then the handler up to
\* `await user.findOneAndDelete({ email })`
DeleteRequest(s) ==
    /\ Idle(s)
    /\ \E auth \in Auths, email \in Emails :
         req' = [req EXCEPT ![s] =
                   IF gate(auth) # 0
                     THEN Refused("delete", auth)
                     ELSE [kind |-> "delete", pc |-> "findOneAndDelete",
                           verified |-> verified(auth), token |-> token(auth),
                           email |-> email]]
    /\ UNCHANGED <<variant, users, issues, nextId, stored, clock>>

\* variant of DeleteFindOne: without the `if (!deletedUser)` test the handler
\* always goes on to step 2
DeleteFindOne_unchecked(s) ==
    /\ req[s].kind = "delete" /\ req[s].pc = "findOneAndDelete"
    /\ users' = findOneAndDelete(req[s].email)
    /\ req' = [req EXCEPT ![s] = [req[s] EXCEPT !.pc = "deleteMany"]]
    /\ UNCHANGED <<variant, issues, nextId, stored, clock>>

\* variant of DeleteFindOne: a deletion that finds no user clears the issues
\* of that email before it answers 404
DeleteFindOne_cleanup(s) ==
    /\ req[s].kind = "delete" /\ req[s].pc = "findOneAndDelete"
    /\ users' = findOneAndDelete(req[s].email)
    /\ issues' = IF req[s].email \in UserEmails THEN issues
                                                ELSE deleteMany(req[s].email)
    /\ req' = [req EXCEPT ![s] =
                 IF req[s].email \in UserEmails
                   THEN [req[s] EXCEPT !.pc = "deleteMany"]
                   ELSE Reply("delete", 404) @@ [email |-> req[s].email]]
    /\ UNCHANGED <<variant, nextId, stored, clock>>

\* step 1 is applied by the store; no deleted user: 404 and nothing more;
\* otherwise the handler goes on to `await issue.deleteMany(...)`
DeleteFindOne(s) ==
    /\ req[s].kind = "delete" /\ req[s].pc = "findOneAndDelete"
    /\ users' = findOneAndDelete(req[s].email)
    /\ req' = [req EXCEPT ![s] =
                 IF req[s].email \in UserEmails
                   THEN [req[s] EXCEPT !.pc = "deleteMany"]
                   ELSE Reply("delete", 404) @@ [email |-> req[s].email]]
    /\ UNCHANGED <<variant, issues, nextId, stored, clock>>

\* step 2 is applied by the store
DeleteMany(s) ==
    /\ req[s].kind = "delete" /\ req[s].pc = "deleteMany"
    /\ issues' = deleteMany(req[s].email)
    /\ req' = [req EXCEPT ![s] =
                 Reply("delete", 200) @@ [email |-> req[s].email]]
    /\ UNCHANGED <<variant, users, nextId, stored, clock>>

\* variant of DeleteFail: the catch block attempts the bulk deletion once more
\* before it answers
DeleteFail_retry(s) ==
    /\ req[s].kind = "delete" /\ req[s].pc \in {"findOneAndDelete", "deleteMany"}
    /\ issues' = deleteMany(req[s].email)
    /\ req' = [req EXCEPT ![s] = Caught("delete", req[s].pc) @@ [email |-> req[s].email]]
    /\ UNCHANGED <<variant, users, nextId, stored, clock>>

\* either store call throws: the catch block answers 500
DeleteFail(s) ==
    /\ req[s].kind = "delete" /\ req[s].pc \in {"findOneAndDelete", "deleteMany"}
    /\ req' = [req EXCEPT ![s] = Caught("delete", req[s].pc) @@ [email |-> req[s].email]]
    /\ UNCHANGED <<variant, users, issues, nextId, stored, clock>>

\* ---------------------------------------------------------------- listings
\* .sort({ _id: -1 }): the sequence of the documents of S by descending id
RECURSIVE SortDesc(_)
SortDesc(S) ==
    IF S = {} THEN <<>>
    ELSE LET top == CHOOSE i \in S : \A j \in S : j.id <= i.id
         IN  <<top>> \o SortDesc(S \ {top})

\* a find() without sort returns the documents in the store's natural order,
\* which nothing in the code fixes: any order of S
Orders(S) ==
    {q \in [1..Cardinality(S) -> S] : \A a, b \in 1..Cardinality(S) : a # b => q[a] # q[b]}

\* the filter of issue.find(filter): "" in a field puts no condition on it
Matches(i, filter) ==
    /\ filter.emailid \in {"", i.emailid}
    /\ filter.status \in {"", i.status}
find(filter) == {i \in issues : Matches(i, filter)}

\* of a fetched document the handler reads _id (the sort key) and emailid; the
\* other fields of item._doc go into the response as they were fetched.
\* username "" : not attached (yet)
Item(i) == [id |-> i.id, emailid |-> i.emailid, username |-> ""]

\* ?status= of /api/issues/user/:emailid: `if (status) filter.status = status`
QueryStatuses == {"", "pending"}
Filters(route) ==
    CASE route = "all" -> {[emailid |-> "", status |-> ""]}
      [] route = "status" -> [emailid : {""}, status : RequestedStatuses]
      [] route = "user" -> [emailid : Emails, status : QueryStatuses]
      [] route = "pending" -> {[emailid |-> "", status |-> "pending"]}
      [] route = "accepted" -> {[emailid |-> "", status |-> "accepted"]}
Routes == {"all", "status", "user", "pending", "accepted"}

\* a listing request arrives: GET /api/issues (behind the gate in server.js),
\* /api/issues/status/:status, /api/issues/user/:emailid, /pending,
\* /api/issues/accepted; the handler runs up to `await issue.find(...)`
ListRequest(s) ==
    /\ Idle(s)
    /\ Quiet
    /\ \E auth \in Auths, route \in Routes :
         \E filter \in Filters(route) :
           req' = [req EXCEPT ![s] =
                     IF route = "all" /\ gate(auth) # 0
                       THEN Refused("list", auth)
                       ELSE [kind |-> "list", pc |-> "find", route |-> route,
                             verified |-> route = "all" /\ verified(auth),
                             token |-> IF route = "all" THEN token(auth) ELSE "unread",
                             filter |-> filter]]
    /\ UNCHANGED <<variant, users, issues, nextId, stored, clock>>

\* the store answers the find; /pending sends the documents as they come, the
\* other routes start one user.findOne per document (Promise.all over map)
ListFind(s) ==
    /\ req[s].kind = "list" /\ req[s].pc = "find"
    /\ LET found == find(req[s].filter)
       IN  \E q \in IF req[s].route = "pending" THEN Orders(found)
                    ELSE {SortDesc(found)} :
             LET list == [k \in 1..Len(q) |-> Item(q[k])]
             IN  req' = [req EXCEPT ![s] =
                           IF req[s].route = "pending" \/ list = <<>>
                             THEN Reply("list", 200) @@ [list |-> list]
                             ELSE [kind |-> "list", pc |-> "lookup", list |-> list]]
    /\ UNCHANGED <<variant, users, issues, nextId, stored, clock>>

\* variant of username: userInfo?.name, without the fallback
username_unguarded(email) ==
    IF email \in UserEmails
      THEN (CHOOSE u \in users : u.email = email).name
      ELSE "undefined"

\* userInfo ? userInfo.name : "Anonymous User"
username(email) ==
    IF email \in UserEmails
      THEN (CHOOSE u \in users : u.email = email).name
      ELSE "Anonymous User"

\* variant of ListLookup: every answered lookup also brings the names
\* attached so far up to date
ListLookup_refresh(s) ==
    /\ req[s].kind = "list" /\ req[s].pc = "lookup"
    /\ \E k \in 1..Len(req[s].list) :
         /\ req[s].list[k].username = ""
         /\ LET list == [j \in 1..Len(req[s].list) |->
                          IF j = k \/ req[s].list[j].username # ""
                            THEN [req[s].list[j] EXCEPT
                                    !.username = username(req[s].list[j].emailid)]
                            ELSE req[s].list[j]]
            IN  req' = [req EXCEPT ![s] =
                          IF \A j \in 1..Len(list) : list[j].username # ""
                            THEN Reply("list", 200) @@ [list |-> list]
                            ELSE [req[s] EXCEPT !.list = list]]
    /\ UNCHANGED <<variant, users, issues, nextId, stored, clock>>

\* the store answers one of the pending user.findOne calls, in any order;
\* Promise.all resolves with the last of them and the handler sends the list
ListLookup(s) ==
    /\ req[s].kind = "list" /\ req[s].pc = "lookup"
    /\ \E k \in 1..Len(req[s].list) :
         /\ req[s].list[k].username = ""
         /\ LET list == [req[s].list EXCEPT ![k].username = username(req[s].list[k].emailid)]
            IN  req' = [req EXCEPT ![s] =
                          IF \A j \in 1..Len(list) : list[j].username # ""
                            THEN Reply("list", 200) @@ [list |-> list]
                            ELSE [req[s] EXCEPT !.list = list]]
    /\ UNCHANGED <<variant, users, issues, nextId, stored, clock>>

\* the find or a findOne throws: the catch block answers 500
ListFail(s) ==
    /\ req[s].kind = "list" /\ req[s].pc \in {"find", "lookup"}
    /\ req' = [req EXCEPT ![s] = Caught("list", req[s].pc)]
    /\ UNCHANGED <<variant, users, issues, nextId, stored, clock>>

\* ---------------------------------------------------------------- accounts
\* POST /api/users/login: `await user.findOne({ email, password })`
LoginRequest(s) ==
    /\ Idle(s)
    /\ Quiet
    /\ \E email \in Emails, password \in TriedPasswords :
         req' = [req EXCEPT ![s] =
                   [kind |-> "login", pc |-> "findOne",
                    email |-> email, password |-> password]]
    /\ UNCHANGED <<variant, users, issues, nextId, stored, clock>>

\* the store answers: 200 for a user of that email and password, 401 for none
LoginFindOne(s) ==
    /\ req[s].kind = "login" /\ req[s].pc = "findOne"
    /\ LET existingUser ==
             {u \in users : u.email = req[s].email /\ u.password = req[s].password}
       IN  req' = [req EXCEPT ![s] =
                     Reply("login", IF existingUser # {} THEN 200 ELSE 401)]
    /\ UNCHANGED <<variant, users, issues, nextId, stored, clock>>

\* the admin collection: the server only reads it
Admins == {[adminId |-> "root", password |-> "pw"]}
AdminIds == {"root", "guest"}

\* POST /api/admins/login: `await admin.findOne({ adminId, password })`
AdminLoginRequest(s) ==
    /\ Idle(s)
    /\ Quiet
    /\ \E adminId \in AdminIds, password \in TriedPasswords :
         req' = [req EXCEPT ![s] =
                   [kind |-> "adminLogin", pc |-> "findOne",
                    adminId |-> adminId, password |-> password]]
    /\ UNCHANGED <<variant, users, issues, nextId, stored, clock>>

\* the store answers: 401 for no such admin, otherwise 200 (server.js adds a
\* signed token to the answer)
AdminLoginFindOne(s) ==
    /\ req[s].kind = "adminLogin" /\ req[s].pc = "findOne"
    /\ LET admins ==
             {a \in Admins : a.adminId = req[s].adminId /\ a.password = req[s].password}
       IN  req' = [req EXCEPT ![s] =
                     Reply("adminLogin", IF admins = {} THEN 401 ELSE 200)]
    /\ UNCHANGED <<variant, users, issues, nextId, stored, clock>>

\* GET /api/admin/verify (server.js only): the gate, then the handler checks
\* the header and the token once more; all of it runs without an await
AdminVerify(s) ==
    /\ Idle(s)
    /\ Quiet
    /\ variant = "cloud"
    /\ \E auth \in Auths :
         req' = [req EXCEPT ![s] =
                   IF gate(auth) # 0 THEN Refused("verify", auth) @@ [ran |-> FALSE]
                   ELSE Reply("verify", IF auth = "none" THEN 401
                                        ELSE IF auth = "invalid" THEN 403
                                        ELSE 200)
                          @@ [token |-> token(auth), ran |-> TRUE]]
    /\ UNCHANGED <<variant, users, issues, nextId, stored, clock>>

\* GET /api/users/count arrives: the gate, then `await user.countDocuments()`
CountRequest(s) ==
    /\ Idle(s)
    /\ Quiet
    /\ \E auth \in Auths :
         req' = [req EXCEPT ![s] =
                   IF gate(auth) # 0
                     THEN Refused("count", auth)
                     ELSE [kind |-> "count", pc |-> "countDocuments",
                           verified |-> verified(auth), token |-> token(auth)]]
    /\ UNCHANGED <<variant, users, issues, nextId, stored, clock>>

CountDocuments(s) ==
    /\ req[s].kind = "count" /\ req[s].pc = "countDocuments"
    /\ req' = [req EXCEPT ![s] = Reply("count", 200) @@ [count |-> Cardinality(users)]]
    /\ UNCHANGED <<variant, users, issues, nextId, stored, clock>>

\* new RegExp(name, "i") tested against a user's name: the name contains the
\* pattern, letter case aside
regexTest(name, userName) ==
    \/ name = "an" /\ userName = "Ann"
    \/ name = "b" /\ userName = "Bob"

\* GET /api/users/search arrives: the gate, `if (!name)` answers 400, then
\* `await user.find({ name: regex })`
SearchRequest(s) ==
    /\ Idle(s)
    /\ Quiet
    /\ \E auth \in Auths, name \in SearchNames :
         req' = [req EXCEPT ![s] =
                   IF gate(auth) # 0 THEN Refused("search", auth)
                   ELSE IF name = "" THEN Reply("search", 400)
                   ELSE [kind |-> "search", pc |-> "find",
                         verified |-> verified(auth), token |-> token(auth),
                         name |-> name]]
    /\ UNCHANGED <<variant, users, issues, nextId, stored, clock>>

SearchFind(s) ==
    /\ req[s].kind = "search" /\ req[s].pc = "find"
    /\ LET usersFound == {u \in users : regexTest(req[s].name, u.name)}
       IN  req' = [req EXCEPT ![s] =
                     Reply("search", 200) @@ [usersFound |-> {u.email : u \in usersFound}]]
    /\ UNCHANGED <<variant, users, issues, nextId, stored, clock>>

\* the awaited call of a login, count or search throws: the catch block
\* answers 500
AccountFail(s) ==
    /\ req[s].kind \in {"login", "adminLogin", "count", "search"}
    /\ req[s].pc \in {"findOne", "countDocuments", "find"}
    /\ req' = [req EXCEPT ![s] = Caught(req[s].kind, req[s].pc)]
    /\ UNCHANGED <<variant, users, issues, nextId, stored, clock>>

\* ---------------------------------------------------------------- responses
\* res.json(...) / res.status(...).json(...): the request is over
Respond(s) ==
    /\ req[s].pc = "respond"
    /\ req' = [req EXCEPT ![s] = Free]
    /\ UNCHANGED <<variant, users, issues, nextId, stored, clock>>

\* Date.now() advances
Tick ==
    /\ variant = "disk"
    /\ clock < MaxClock
    /\ clock' = clock + 1
    /\ UNCHANGED <<variant, users, issues, nextId, stored, req>>

Init ==
    /\ variant \in {"cloud", "disk"}
    /\ users = {}
    /\ issues = {}
    /\ nextId = 1
    /\ stored = {}
    /\ clock = 0
    /\ req = [s \in Slots |-> Free]

\* the requests that write to the store
NextWrite ==
    \/ \E s \in Slots : SubmitNoFile(s)
    \/ \E s \in Slots : SubmitUploadFail(s)
    \/ \E s \in Slots : SubmitCloud(s)
    \/ \E s \in Slots : SubmitDisk(s)
    \/ \E s \in Slots : SubmitSave(s)
    \/ \E s \in Slots : SubmitSaveFail(s)
    \/ \E s \in Slots : SignupRequest(s)
    \/ \E s \in Slots : SignupSave(s)
    \/ \E s \in Slots : PatchRequest(s)
    \/ \E s \in Slots : PatchUpdate(s)
    \/ \E s \in Slots : PatchCastError(s)
    \/ \E s \in Slots : PatchFail(s)
    \/ \E s \in Slots : DeleteRequest(s)
    \/ \E s \in Slots : DeleteFindOne(s)
    \/ \E s \in Slots : DeleteMany(s)
    \/ \E s \in Slots : DeleteFail(s)
    \/ \E s \in Slots : Respond(s)
    \/ Tick

\* the listings and the account requests, which only read it
NextRead ==
    \/ \E s \in Slots : ListRequest(s)
    \/ \E s \in Slots : ListFind(s)
    \/ \E s \in Slots : ListLookup(s)
    \/ \E s \in Slots : ListFail(s)
    \/ \E s \in Slots : LoginRequest(s)
    \/ \E s \in Slots : LoginFindOne(s)
    \/ \E s \in Slots : AdminLoginRequest(s)
    \/ \E s \in Slots : AdminLoginFindOne(s)
    \/ \E s \in Slots : AdminVerify(s)
    \/ \E s \in Slots : CountRequest(s)
    \/ \E s \in Slots : CountDocuments(s)
    \/ \E s \in Slots : SearchRequest(s)
    \/ \E s \in Slots : SearchFind(s)
    \/ \E s \in Slots : AccountFail(s)

Next == NextWrite \/ NextRead

\* the whole server
Spec == Init /\ [][Next]_vars
\* the server when no listing is requested
SpecWrite == Init /\ [][NextWrite]_vars

\* src/backend/server.js alone, all of its routes
InitCloud == Init /\ variant = "cloud"
NextCloud ==
    \/ \E s \in Slots : SubmitNoFile(s)
    \/ \E s \in Slots : SubmitUploadFail(s)
    \/ \E s \in Slots : SubmitCloud(s)
    \/ \E s \in Slots : SubmitSave(s)
    \/ \E s \in Slots : SubmitSaveFail(s)
    \/ \E s \in Slots : SignupRequest(s)
    \/ \E s \in Slots : SignupSave(s)
    \/ \E s \in Slots : PatchRequest(s)
    \/ \E s \in Slots : PatchUpdate(s)
    \/ \E s \in Slots : PatchCastError(s)
    \/ \E s \in Slots : PatchFail(s)
    \/ \E s \in Slots : DeleteRequest(s)
    \/ \E s \in Slots : DeleteFindOne(s)
    \/ \E s \in Slots : DeleteMany(s)
    \/ \E s \in Slots : DeleteFail(s)
    \/ \E s \in Slots : Respond(s)
    \/ NextRead
SpecCloud == InitCloud /\ [][NextCloud]_vars

\* ================================================================ properties
\* the awaited call of the request threw and its catch block answered
Threw(r) == r.pc = "respond" /\ r.code = 500 /\ "error" \in DOMAIN r
StatusOf(S, id) == (CHOOSE i \in S : i.id = id).status

\* C1: every submission with a file whose save is applied creates its Issue
\* with status "pending", whatever status the request body carries; no Issue
\* enters the store with another status.
C1_CreatedPending ==
    [][/\ \A s \in Slots :
            (req[s].kind = "submit" /\ req[s].pc = "save" /\ req'[s].pc = "respond"
               /\ req'[s].code = 201)
            => \E i \in issues' \ issues :
                 i.id = req[s].newIssue.id /\ i.status = "pending"
       /\ \A i \in issues' : i.id \notin IssueIds => i.status = "pending"]_vars
C1_Witness ==
    \E s \in Slots :
      /\ req[s].kind = "submit" /\ req[s].pc = "respond" /\ req[s].code = 201
      /\ req[s].status = "accepted"
      /\ \E i \in issues : i.id = req[s].id /\ i.status = "pending"

\* C2: in every reachable state every Issue of the store has a status that is
\* one of pending, accepted, rejected.
C2_StatusInSet == \A i \in issues : i.status \in StatusSet

\* C3: a status transition whose update the store applies to an existing id
\* answers 200 with the Issue of that id carrying exactly the requested status,
\* and that Issue is what the store holds after the write, whatever the status
\* was before.
C3_PassThrough ==
    [][\A s \in Slots :
         (req[s].kind = "patch" /\ req[s].pc = "update" /\ req'[s] # req[s]
            /\ req[s].id \in IssueIds /\ ~Threw(req'[s]))
         => /\ req'[s].code = 200
            /\ req'[s].Issue.id = req[s].id
            /\ req'[s].Issue.status = req[s].status
            /\ req'[s].Issue \in issues']_vars
C3_Witness ==
    \E s \in Slots :
      /\ req[s].kind = "patch" /\ req[s].pc = "respond" /\ req[s].code = 200
      /\ req[s].Issue.status = "bogus"
      /\ req[s].Issue \in issues

\* C4: a request is inside a moderation-sensitive handler (full listing, status
\* transition, user deletion) only if its token was verified, and no status is
\* changed and no User or Issue is deleted by a request whose token was not.
C4_OnlyVerified ==
    [][\A s \in Slots :
         /\ (req'[s].kind \in {"patch", "delete"}
               /\ req'[s].pc \in {"update", "findOneAndDelete", "deleteMany"})
            => req'[s].verified
         /\ (req'[s].kind = "list" /\ req'[s].pc = "find" /\ req'[s].route = "all")
            => req'[s].verified
         /\ (req'[s] # req[s]
               /\ \/ \E i \in issues : i.id \notin IssueIds'
                  \/ \E i \in issues : i.id \in IssueIds'
                                         /\ StatusOf(issues', i.id) # i.status
                  \/ ~(users \subseteq users'))
            => req[s].verified]_vars

\* C5: whenever a user deletion answers 200, the User of that email is gone
\* and no Issue with that emailid is in the store.
C5_DeleteComplete ==
    \A s \in Slots :
      (req[s].kind = "delete" /\ req[s].pc = "respond" /\ req[s].code = 200)
      => /\ req[s].email \notin UserEmails
         /\ IssuesOf(req[s].email) = {}

\* C6: a user deletion whose step 1 finds no User of that email answers 404,
\* leaves the issues (and the users) as they are, and does nothing after it
\* but send that answer.
C6_NoUserNoEffect ==
    [][\A s \in Slots :
         /\ (req[s].kind = "delete" /\ req[s].pc = "findOneAndDelete"
               /\ req'[s] # req[s] /\ req[s].email \notin UserEmails
               /\ ~Threw(req'[s]))
            => /\ req'[s].pc = "respond" /\ req'[s].code = 404
               /\ issues' = issues /\ users' = users
         /\ (req[s].kind = "delete" /\ req[s].pc = "respond" /\ req[s].code = 404
               /\ req'[s] # req[s])
            => req'[s] = Free /\ issues' = issues /\ users' = users]_vars
C6_Witness ==
    \E s \in Slots :
      /\ req[s].kind = "delete" /\ req[s].pc = "respond" /\ req[s].code = 404
      /\ IssuesOf(req[s].email) # {}

\* C7: a submission without a file is answered 400 at once, and the request
\* adds, changes and removes no Issue.
C7_NoFile ==
    [][\A s \in Slots :
         /\ (req[s] = Free /\ req'[s].kind = "submit" /\ ~req'[s].file)
            => req'[s].pc = "respond" /\ req'[s].code = 400 /\ issues' = issues
         /\ (req[s].kind = "submit" /\ ~req[s].file /\ req'[s] # req[s])
            => req'[s] = Free /\ issues' = issues]_vars
C7_Witness ==
    \E s \in Slots :
      /\ req[s].kind = "submit" /\ ~req[s].file /\ req[s].code = 400
      /\ issues # {}

\* C8: the photo of every Issue in the store, and of every Issue about to be
\* saved, is a URL the evidence storage has written; an upload that is rejected
\* or yields no URL never gets as far as a save.
C8_PhotoStored ==
    /\ NoUrl \notin stored
    /\ \A i \in issues : i.photo \in stored
    /\ \A s \in Slots :
         (req[s].kind = "submit" /\ req[s].pc = "save") => req[s].newIssue.photo \in stored
C8_Witness ==
    /\ issues # {}
    /\ \E s \in Slots :
         /\ req[s].kind = "submit" /\ req[s].pc = "respond" /\ req[s].code = 500
         /\ req[s].file /\ "error" \notin DOMAIN req[s]

\* C9: a status transition applied to an existing id answers 200 and leaves
\* its value in the store also when another transition of the same id was
\* applied before it and is still unanswered (whose answer stays as it is);
\* a status in the store changes in no other way, so after two concurrent
\* transitions the store holds the value of the one applied last.
C9_LastWriterWins ==
    [][/\ \A s \in Slots :
            (req[s].kind = "patch" /\ req[s].pc = "update" /\ req'[s] # req[s]
               /\ req[s].id \in IssueIds /\ ~Threw(req'[s]))
            => /\ req'[s].code = 200
               /\ StatusOf(issues', req[s].id) = req[s].status
               /\ \A t \in Slots \ {s} : req'[t] = req[t]
       /\ \A i \in issues :
            (i.id \in IssueIds' /\ StatusOf(issues', i.id) # i.status)
            => \E s \in Slots :
                 /\ req[s].kind = "patch" /\ req[s].pc = "update" /\ req'[s] # req[s]
                 /\ req[s].id = i.id /\ req[s].status = StatusOf(issues', i.id)]_vars
C9_Witness ==
    \E s, t \in Slots :
      /\ s # t
      /\ req[s].kind = "patch" /\ req[s].pc = "respond" /\ req[s].code = 200
      /\ req[t].kind = "patch" /\ req[t].pc = "respond" /\ req[t].code = 200
      /\ req[s].Issue.id = req[t].Issue.id
      /\ req[s].Issue.status # req[t].Issue.status
      /\ req[t].Issue \in issues

\* C10: every list of issues that is sent is in strictly descending order of id.
C10_Descending ==
    \A s \in Slots :
      (req[s].kind = "list" /\ req[s].pc = "respond" /\ req[s].code = 200)
      => \A k \in 1..(Len(req[s].list) - 1) : req[s].list[k].id > req[s].list[k + 1].id

\* C11: in every aggregated read, each name lookup that the store answers
\* attaches to its issue the name of the User whose email equals the issue's
\* emailid at that moment, or "Anonymous User" when there is no such User; the
\* other entries stay as they are, and the list is sent when, and only when,
\* every entry carries a username.
C11_Username ==
    [][\A s \in Slots :
         (req[s].kind = "list" /\ req[s].pc = "lookup" /\ req'[s] # req[s]
            /\ ~Threw(req'[s]))
         => /\ \E k \in 1..Len(req[s].list) :
                 LET e == req[s].list[k].emailid
                     name == IF \E u \in users : u.email = e
                               THEN (CHOOSE u \in users : u.email = e).name
                               ELSE "Anonymous User"
                 IN  /\ req[s].list[k].username = ""
                     /\ req'[s].list = [req[s].list EXCEPT ![k].username = name]
            /\ (req'[s].pc = "respond" /\ req'[s].code = 200)
                 <=> \A k \in 1..Len(req'[s].list) : req'[s].list[k].username # ""]_vars
C11_Witness ==
    \E s \in Slots :
      /\ req[s].kind = "list" /\ req[s].pc = "respond" /\ req[s].code = 200
      /\ \E j, k \in 1..Len(req[s].list) :
           /\ req[s].list[j].username = "Anonymous User"
           /\ req[s].list[k].username \in Names

\* C12: on the routes registered with verifyAdmin, a request without an
\* Authorization header is answered 401 and one with a malformed or expired
\* token 403, as soon as it arrives; its handler never runs, and nothing the
\* request does afterwards but sending that answer: no User and no Issue is
\* added, changed or removed by it.
C12_Gate ==
    [][\A s \in Slots :
         /\ (req[s] = Free /\ req'[s] # Free /\ "token" \in DOMAIN req'[s]
               /\ req'[s].token \in {"none", "invalid"})
            => /\ req'[s].pc = "respond"
               /\ req'[s].code = IF req'[s].token = "none" THEN 401 ELSE 403
               /\ req'[s].kind = "verify" => ~req'[s].ran
               /\ users' = users /\ issues' = issues
         /\ (req[s] # Free /\ "token" \in DOMAIN req[s]
               /\ req[s].token \in {"none", "invalid"} /\ req'[s] # req[s])
            => req'[s] = Free /\ users' = users /\ issues' = issues]_vars
C12_Witness ==
    \E s, t \in Slots :
      /\ req[s].kind = "patch" /\ req[s].pc = "respond" /\ req[s].code = 403
      /\ req[s].token = "invalid"
      /\ req[t].kind = "delete" /\ req[t].pc = "respond" /\ req[t].code = 401
      /\ req[t].token = "none"
      /\ issues # {} /\ users # {}

\* C13: step 1 of a user deletion removes the User; when step 2 (the bulk
\* Issue deletion) then throws, the request is answered 500 and that step
\* leaves users and issues as they are: the User is not put back and the
\* Issues of that email stay; after it the request only sends its answer,
\* with no second attempt.
C13_PartialCascade ==
    [][\A s \in Slots :
         /\ (req[s].kind = "delete" /\ req[s].pc = "findOneAndDelete"
               /\ req'[s].kind = "delete" /\ req'[s].pc = "deleteMany")
            => req[s].email \in UserEmails /\ req[s].email \notin UserEmails'
         /\ (req[s].kind = "delete" /\ req[s].pc = "deleteMany" /\ Threw(req'[s]))
            => /\ req'[s].code = 500
               /\ users' = users /\ issues' = issues
         /\ (req[s].kind = "delete" /\ Threw(req[s]) /\ req'[s] # req[s])
            => req'[s] = Free /\ users' = users /\ issues' = issues]_vars
C13_Witness ==
    \E s \in Slots :
      /\ req[s].kind = "delete" /\ Threw(req[s]) /\ req[s].error = "deleteMany"
      /\ req[s].email \notin UserEmails
      /\ IssuesOf(req[s].email) # {}

\* C14: a status transition whose handler runs for an id that no Issue of the
\* store has, and whose store call does not fail, is answered 404 and leaves
\* every Issue and every User as it is.
C14_NotFound ==
    [][\A s \in Slots :
         (req[s].kind = "patch" /\ req[s].pc = "update" /\ req'[s] # req[s]
            /\ req[s].id \notin IssueIds
            /\ ~(Threw(req'[s]) /\ req'[s].error = "findByIdAndUpdate"))
         => /\ req'[s].pc = "respond" /\ req'[s].code = 404
            /\ issues' = issues /\ users' = users]_vars

\* C15: over all routes of the server, an Issue enters the store only as the
\* document a submission saves; an Issue that stays is changed only by a status
\* transition of its id, and only in its status; an Issue leaves only in step 2
\* of the deletion of the user of its emailid; and whenever the issues change,
\* the request that took the step is a submission, a status transition or a
\* user deletion (never a signup, login, listing, count, search or verify).
C15_Frame ==
    [][/\ \A i \in issues' :
            i.id \notin IssueIds
            => \E s \in Slots :
                 /\ req[s].kind = "submit" /\ req[s].pc = "save" /\ req'[s] # req[s]
                 /\ i = req[s].newIssue
       /\ \A i \in issues :
            (i.id \in IssueIds' /\ i \notin issues')
            => \E s \in Slots :
                 /\ req[s].kind = "patch" /\ req[s].pc = "update" /\ req'[s] # req[s]
                 /\ req[s].id = i.id
                 /\ [i EXCEPT !.status = req[s].status] \in issues'
       /\ \A i \in issues :
            i.id \notin IssueIds'
            => \E s \in Slots :
                 /\ req[s].kind = "delete" /\ req[s].pc = "deleteMany"
                 /\ req'[s] # req[s]
                 /\ req[s].email = i.emailid
       /\ issues' # issues
            => \E s \in Slots :
                 /\ req'[s] # req[s]
                 /\ req[s].kind \in {"submit", "patch", "delete"}]_vars
C15_Witness ==
    \E s, t \in Slots :
      /\ req[s].kind = "delete" /\ req[s].pc = "respond" /\ req[s].code = 200
      /\ Reading(req[t]) /\ req[t].pc = "respond" /\ req[t].code = 200
      /\ nextId > MaxIssues
      /\ \E i \in issues : i.status = "accepted" /\ i.emailid # req[s].email
      /\ Cardinality(issues) = 1

\* C16: with the local-disk evidence store, no two Issues of the store
\* reference the same stored file.
C16_DistinctNames ==
    variant = "disk"
    => \A i, j \in issues : i.id # j.id => i.photo # j.photo

\* C17: an aggregated listing is assembled over several steps and is no
\* snapshot: the issues it fetched stay in its list whatever is deleted from
\* the store afterwards, and a name once attached stays as it was attached
\* whatever happens to that User afterwards; so the response can carry issues
\* that the cascading delete has removed, and for one and the same emailid the
\* name before and the name after a change (or the fallback).
C17_NoSnapshot ==
    [][\A s \in Slots :
         (req[s].kind = "list" /\ req[s].pc = "lookup" /\ ~Threw(req'[s]))
         => /\ req'[s].kind = "list"
            /\ Len(req'[s].list) = Len(req[s].list)
            /\ \A k \in 1..Len(req[s].list) :
                 /\ req'[s].list[k].id = req[s].list[k].id
                 /\ req'[s].list[k].emailid = req[s].list[k].emailid
                 /\ req[s].list[k].username # ""
                      => req'[s].list[k].username = req[s].list[k].username]_vars
C17_Witness ==
    \E s \in Slots :
      /\ req[s].kind = "list" /\ req[s].pc = "respond" /\ req[s].code = 200
      /\ \E j, k \in 1..Len(req[s].list) :
           /\ req[s].list[j].emailid = req[s].list[k].emailid
           /\ req[s].list[j].username \in Names
           /\ req[s].list[k].username \in Names
           /\ req[s].list[j].username # req[s].list[k].username
           /\ req[s].list[j].id \notin IssueIds

\* C18: when the save of a submission throws, the request is answered 500,
\* the step leaves the issues as they are, the document that was constructed
\* is not in the store, and the request then only sends its answer.
C18_NoPartialRecord ==
    [][\A s \in Slots :
         /\ (req[s].kind = "submit" /\ req[s].pc = "save" /\ Threw(req'[s]))
            => /\ req'[s].code = 500
               /\ issues' = issues
               /\ req[s].newIssue.id \notin IssueIds'
         /\ (req[s].kind = "submit" /\ Threw(req[s]) /\ req'[s] # req[s])
            => req'[s] = Free /\ issues' = issues]_vars
C18_Witness ==
    \E s \in Slots :
      /\ req[s].kind = "submit" /\ Threw(req[s]) /\ req[s].error = "save"
      /\ nextId = 2 /\ issues = {} /\ stored # {}

\* C19: an Issue is written to the store with an id greater than the id of
\* every Issue written before it that the store still holds.
C19_Monotonic ==
    [][\A i \in issues' :
         i.id \notin IssueIds => \A j \in issues : j.id < i.id]_vars

\* C20: every step of the handler deleting the user with email e removes nothing
\* but the User of email e and Issues whose emailid is e, and adds and changes
\* nothing: every Issue with another emailid and every other User is still
\* there, as it was.
C20_OnlyTheirs ==
    [][\A s \in Slots :
         (req[s].kind = "delete" /\ "email" \in DOMAIN req[s] /\ req'[s] # req[s])
         => /\ users' \subseteq users /\ issues' \subseteq issues
            /\ \A u \in users : u.email # req[s].email => u \in users'
            /\ \A i \in issues : i.emailid # req[s].email => i \in issues']_vars
C20_Witness ==
    \E s \in Slots :
      /\ req[s].kind = "delete" /\ req[s].pc = "respond" /\ req[s].code = 200
      /\ nextId > MaxIssues
      /\ Cardinality(issues) = 1
      /\ \E i \in issues : i.emailid # req[s].email
      /\ \E u \in users : u.email # req[s].email
      /\ \A t \in Slots \ {s} : req[t] = Free

\* C21: while no User with email e exists and no deletion of e that found
\* its User is still before its step 2, no step removes an Issue whose emailid
\* is e, every deletion of e whose step 1 the store answers gets 404, and no
\* deletion of e comes to its step 2; so orphaned Issues stay in the store,
\* however often the deletion is repeated, until a User with email e exists
\* again.
C21_OrphansStay ==
    [][\A e \in Emails :
         (/\ e \notin UserEmails
          /\ \A s \in Slots :
               ~(req[s].kind = "delete" /\ req[s].pc = "deleteMany"
                   /\ req[s].email = e))
         => /\ \A i \in issues : i.emailid = e => i.id \in IssueIds'
            /\ \A s \in Slots :
                 (req[s].kind = "delete" /\ req[s].pc = "findOneAndDelete"
                    /\ req[s].email = e /\ req'[s] # req[s] /\ ~Threw(req'[s]))
                 => req'[s].pc = "respond" /\ req'[s].code = 404
            /\ \A s \in Slots :
                 ~(req'[s].kind = "delete" /\ req'[s].pc = "deleteMany"
                     /\ req'[s].email = e)]_vars
C21_Witness ==
    \E s, t \in Slots :
      /\ req[s].kind = "delete" /\ req[s].pc = "respond" /\ req[s].code = 404
      /\ req[t].kind = "delete" /\ Threw(req[t]) /\ req[t].error = "deleteMany"
      /\ req[t].email = req[s].email
      /\ req[s].email \notin UserEmails
      /\ IssuesOf(req[s].email) # {}
====
